---- MODULE Spec2Model ----
(***************************************************************************)
(* Model of the calendar puzzle solver calpuz.py: the Board (grid, date    *)
(* cells, place / remove, smallestVoid), the Piece (reset / rotate /       *)
(* nextPiece) and the recursive backtracking search fit.                   *)
(*                                                                         *)
(* Grids are functions rows[r][c] with 0-based r and c, as in the source.  *)
(* Piece matrices are tuples of tuples (1-based), so the source's          *)
(* piece.rows[y][x] is p.rows[y+1][x+1] here.                              *)
(***************************************************************************)
EXTENDS Integers, Sequences, FiniteSets, TLC

VARIABLES
    date,      \* the date handed to Board(date): [month, day]
    rows,      \* Board.rows
    pieces,    \* Piece.pieces: the catalog, each piece with its current rotation
    stack,     \* the active fit calls, outermost first
    recurse,   \* the global counter recurse
    pc,        \* where the program (or the driver of an operation) stands
    result,    \* the value returned by the last call that returned
    hist       \* what the last operation was applied to (for the contracts)

vars == <<date, rows, pieces, stack, recurse, pc, result, hist>>

----------------------------------------------------------------------------
(* Bounds of the model *)

\* How far outside 1..12 / 1..31 a supplied month / day may lie.
DateSlack == 32

----------------------------------------------------------------------------
(* Board: dimensions and coordinates *)

width == 7
height == 7
locations == width * height

BLOCKED == 9

\* rows = [[0]*height for i in range(width)]: len(rows) and len(rows[0]).
NumRows == width
NumCols == height
RowIdx == 0 .. (NumRows - 1)
ColIdx == 0 .. (NumCols - 1)

\* Python's int(a / b) for b > 0: true division, then truncation toward zero.
TruncDiv(a, b) == IF a >= 0 THEN a \div b ELSE -((-a) \div b)

coordFromLinear(x) == [col |-> x % width, row |-> TruncDiv(x, width)]

linearFromCoord(col, row) == row * width + col

\* The element of a set of one element.  Only({e : x \in {v}}) is e with x
\* the value of v, computed once: this is how a loop hands its state to its
\* next pass.
Only(S) == CHOOSE r \in S : TRUE

\* A Python list index: negative indices count from the end, anything else
\* outside the list raises IndexError (modelled as the value -1).
PyIndex(i, len) ==
    IF i >= 0 /\ i < len THEN i
    ELSE IF i < 0 /\ i >= -len THEN i + len
    ELSE -1

SetCell(g, r, c, v) == [g EXCEPT ![r][c] = v]

EmptyRows == [r \in RowIdx |-> [c \in ColIdx |-> 0]]

\* The six unusable spots set by Board.reset.
FixedBlocked == {<<0, 6>>, <<1, 6>>, <<6, 3>>, <<6, 4>>, <<6, 5>>, <<6, 6>>}

FixedRows == [r \in RowIdx |-> [c \in ColIdx |->
                 IF <<r, c>> \in FixedBlocked THEN BLOCKED ELSE 0]]

\* The cell setDate marks for the month and for the day (row may be an
\* index that Python rejects or wraps).
MonthRow(m) == TruncDiv(m - 1, 6)
MonthCol(m) == (m - 1) % 6
DayRowFromRowOne(d) == TruncDiv(7 + (d - 1), 7)
DayRow(d) == TruncDiv(14 + (d - 1), 7)        \* int(2 + d/7)
DayCol(d) == (d - 1) % 7

\* Board.setDate on grid g: [ok, rows]. ok is FALSE when an index raises.
setDate(g, m, d) ==
    LET mr == PyIndex(MonthRow(m), NumRows)
        dr == PyIndex(DayRow(d), NumRows)
    IN  IF mr = -1 THEN [ok |-> FALSE, rows |-> g]
        ELSE LET g1 == SetCell(g, mr, MonthCol(m), BLOCKED)
             IN  IF dr = -1 THEN [ok |-> FALSE, rows |-> g1]
                 ELSE [ok |-> TRUE, rows |-> SetCell(g1, dr, DayCol(d), BLOCKED)]

\* Board.reset: the fixed layout, then the date.
BoardReset(m, d) == setDate(FixedRows, m, d)

----------------------------------------------------------------------------
(* Piece: the catalog, reset, rotate, nextPiece *)

\* The shapes handed to Piece(...) in main, in catalog order.
Catalog == <<
    << <<1,0,1>>, <<1,1,1>> >>,
    << <<0,0,1>>, <<1,1,1>>, <<1,0,0>> >>,
    << <<1,1,1>>, <<1,0,0>>, <<1,0,0>> >>,
    << <<0,0,1,1>>, <<1,1,1,0>> >>,
    << <<1,1,1,1>>, <<1,0,0,0>> >>,
    << <<1,1,1,1>>, <<0,0,1,0>> >>,
    << <<1,1,1>>, <<0,1,1>> >>,
    << <<1,1,1>>, <<1,1,1>> >>
>>

\* Piece.reset: back to the start shape, rotation 0.
PieceReset(p) ==
    [p EXCEPT !.rows = p.startRows,
              !.width = Len(p.startRows[1]),
              !.height = Len(p.startRows),
              !.rotation = 0]

\* Piece.__init__ for the n-th piece registered in Piece.pieces (n >= 0
\* pieces are registered before it).
NewPiece(shape, n) ==
    PieceReset([id |-> n + 1, startRows |-> shape, rows |-> shape,
                width |-> 0, height |-> 0, rotation |-> 0])

\* The catalog as main builds it, starting from an empty Piece.pieces.
FreshPieces == [k \in 1 .. Len(Catalog) |-> NewPiece(Catalog[k], k - 1)]

\* The pieces main builds when Piece.pieces already holds the pieces ps:
\* each Piece(...) takes the id len(Piece.pieces) + 1 and is appended to the
\* class-level list, which is never emptied.
MorePieces(ps) == [k \in 1 .. Len(Catalog) |-> NewPiece(Catalog[k], Len(ps) + k - 1)]

\* piece[0] of main's list, as a 1-based position in Piece.pieces.
FirstPiece(ps) == Len(ps) - Len(Catalog) + 1

rotateModThree(p) ==
    [p EXCEPT !.rows = [nr \in 1 .. p.width |-> [nc \in 1 .. p.height |->
                            p.rows[nc][p.width - nr + 1]]],
              !.width = p.height,
              !.height = p.width,
              !.rotation = (p.rotation + 1) % 3]

\* Piece.rotate: newRows[nrnum][ncnum] = rows[ncnum][width - nrnum - 1].
rotate(p) ==
    [p EXCEPT !.rows = [nr \in 1 .. p.width |-> [nc \in 1 .. p.height |->
                            p.rows[nc][p.width - nr + 1]]],
              !.width = p.height,
              !.height = p.width,
              !.rotation = (p.rotation + 1) % 4]

\* Piece.nextPiece, as a 1-based position in Piece.pieces; 0 stands for None.
nextPiece(ps, p) ==
    LET idx == p.id % Len(ps)
    IN  IF idx > 0 THEN idx + 1 ELSE 0

\* The number of spots a shape covers.
RECURSIVE SumSeq(_)
SumSeq(s) == IF s = <<>> THEN 0 ELSE Head(s) + SumSeq(Tail(s))

RECURSIVE CellCount(_)
CellCount(m) == IF m = <<>> THEN 0 ELSE SumSeq(Head(m)) + CellCount(Tail(m))

----------------------------------------------------------------------------
(* Board.smallestVoid *)

\* sys.maxsize, the result when there is no void at all. Only ever compared
\* with group counts, which are at most the number of locations.
maxsize == 2147483647

Locs == 0 .. (locations - 1)

\* The walks' state: the two lists and the next group ID.
VoidStart == [spotGroups |-> [i \in Locs |-> -1],
              groupCounts |-> [i \in Locs |-> 0],
              groupId |-> 0]

\* One spot of the first walk (down each column): join the group of the
\* void spot above, else start a new group.
ColumnSpot(g, st, cidx, ridx) ==
    LET pos == linearFromCoord(cidx, ridx)
        ppos == linearFromCoord(cidx, ridx - 1)
        newGroup == [st EXCEPT !.spotGroups[pos] = st.groupId,
                               !.groupCounts[st.groupId] = 1,
                               !.groupId = @ + 1]
    IN  IF g[ridx][cidx] # 0 THEN st
        ELSE IF ridx = 0 THEN newGroup
        ELSE IF g[ridx - 1][cidx] = 0
             THEN [st EXCEPT !.spotGroups[pos] = st.spotGroups[ppos],
                             !.groupCounts[st.spotGroups[ppos]] = @ + 1]
             ELSE newGroup

\* for ridx in range(len(rows)), from ridx on, in column cidx.
RECURSIVE ColumnDown(_, _, _, _)
ColumnDown(g, st, cidx, ridx) ==
    Only({IF ridx >= NumRows THEN s
          ELSE ColumnDown(g, ColumnSpot(g, s, cidx, ridx), cidx, ridx + 1)
          : s \in {st}})

\* for cidx in range(len(rows[0])), from cidx on.
RECURSIVE ColumnWalk(_, _, _)
ColumnWalk(g, st, cidx) ==
    Only({IF cidx >= NumCols THEN s
          ELSE ColumnWalk(g, ColumnDown(g, s, cidx, 0), cidx + 1)
          : s \in {st}})

RowSpotMovesOneSpot(g, st, cidx, ridx) ==
    LET pos == linearFromCoord(cidx, ridx)
        ppos == linearFromCoord(cidx - 1, ridx)
        toGroup == st.spotGroups[ppos]
        fromGroup == st.spotGroups[pos]
    IN  IF g[ridx][cidx] = 0 /\ g[ridx][cidx - 1] = 0 /\ fromGroup # toGroup
        THEN [st EXCEPT
                !.spotGroups[pos] = toGroup,
                !.groupCounts = [[st.groupCounts EXCEPT ![toGroup] = @ + 1]
                                 EXCEPT ![fromGroup] = 0]]
        ELSE st

\* One spot of the second walk (across each row): merge the spot's group
\* into the group of the void spot to its left.
RowSpot(g, st, cidx, ridx) ==
    LET pos == linearFromCoord(cidx, ridx)
        ppos == linearFromCoord(cidx - 1, ridx)
        toGroup == st.spotGroups[ppos]
        fromGroup == st.spotGroups[pos]
        moved == {i \in Locs : st.spotGroups[i] = fromGroup}
    IN  IF g[ridx][cidx] = 0 /\ g[ridx][cidx - 1] = 0 /\ fromGroup # toGroup
        THEN [st EXCEPT
                !.spotGroups = [i \in Locs |-> IF i \in moved THEN toGroup
                                               ELSE st.spotGroups[i]],
                !.groupCounts = [[st.groupCounts EXCEPT
                                    ![toGroup] = @ + Cardinality(moved)]
                                 EXCEPT ![fromGroup] = 0]]
        ELSE st

\* for cidx in range(1, len(rows[0])), from cidx on, in row ridx.
RECURSIVE RowAcross(_, _, _, _)
RowAcross(g, st, ridx, cidx) ==
    Only({IF cidx >= NumCols THEN s
          ELSE RowAcross(g, RowSpot(g, s, cidx, ridx), ridx, cidx + 1)
          : s \in {st}})

\* for ridx in range(len(rows)), from ridx on.
RECURSIVE RowWalk(_, _, _)
RowWalk(g, st, ridx) ==
    Only({IF ridx >= NumRows THEN s
          ELSE RowWalk(g, RowAcross(g, s, ridx, 1), ridx + 1)
          : s \in {st}})

SmallestCountOfAll(st) ==
    LET counts == {st.groupCounts[i] : i \in 0 .. (st.groupId - 1)}
    IN  IF counts = {} THEN maxsize
        ELSE CHOOSE c \in counts : \A d \in counts : c <= d

\* The smallest non-zero count among the groups 0 .. groupId-1, and maxsize
\* when there is none: what the last loop leaves in smallest.
SmallestCount(st) ==
    LET counts == {st.groupCounts[i] : i \in 0 .. (st.groupId - 1)} \ {0}
    IN  IF counts = {} THEN maxsize
        ELSE CHOOSE c \in counts : \A d \in counts : c <= d

smallestVoid(g) ==
    Only({SmallestCount(st) :
            st \in {RowWalk(g, ColumnWalk(g, VoidStart, 0), 0)}})

----------------------------------------------------------------------------
(* Board.place and Board.remove *)

MinVoidCountSix == 5 + 1
MIN_VOID_COUNT == 5

removeWithoutId(g, p, x) ==
    LET x0 == coordFromLinear(x).col
        y0 == coordFromLinear(x).row
    IN  [r \in RowIdx |-> [c \in ColIdx |->
            IF r >= y0 /\ r < y0 + p.height /\ c >= x0 /\ c < x0 + p.width
            THEN g[r][c] - p.rows[r - y0 + 1][c - x0 + 1]
            ELSE g[r][c]]]

\* Board.remove: subtract the piece's pattern at linear location x. Only
\* called for a piece whose rectangle lies on the board.
remove(g, p, x) ==
    LET x0 == coordFromLinear(x).col
        y0 == coordFromLinear(x).row
    IN  [r \in RowIdx |-> [c \in ColIdx |->
            IF r >= y0 /\ r < y0 + p.height /\ c >= x0 /\ c < x0 + p.width
            THEN g[r][c] - p.rows[r - y0 + 1][c - x0 + 1] * p.id
            ELSE g[r][c]]]

RECURSIVE SuperimposeNoRestore(_, _, _, _, _, _)
SuperimposeNoRestore(g, brdCopy, p, x0, y0, n) ==
    IF n >= p.height * p.width THEN [ok |-> TRUE, rows |-> g]
    ELSE LET y == n \div p.width
             x == n % p.width
         IN  IF p.rows[y + 1][x + 1] # 0 /\ g[y0 + y][x0 + x] # 0
             THEN [ok |-> FALSE, rows |-> g]
             ELSE Only({SuperimposeNoRestore(h, brdCopy, p, x0, y0, n + 1) :
                          h \in {[g EXCEPT ![y0 + y][x0 + x] =
                                              @ + p.rows[y + 1][x + 1] * p.id]}})

RECURSIVE SuperimposeOverPieces(_, _, _, _, _, _)
SuperimposeOverPieces(g, brdCopy, p, x0, y0, n) ==
    IF n >= p.height * p.width THEN [ok |-> TRUE, rows |-> g]
    ELSE LET y == n \div p.width
             x == n % p.width
         IN  IF p.rows[y + 1][x + 1] # 0 /\ g[y0 + y][x0 + x] = BLOCKED
             THEN [ok |-> FALSE, rows |-> brdCopy]
             ELSE Only({SuperimposeOverPieces(h, brdCopy, p, x0, y0, n + 1) :
                          h \in {[g EXCEPT ![y0 + y][x0 + x] =
                                              @ + p.rows[y + 1][x + 1] * p.id]}})

\* The superimposing loop of place from the n-th cell of the piece's
\* rectangle on (row by row): [ok, rows], where a failure restores brdCopy.
RECURSIVE Superimpose(_, _, _, _, _, _)
Superimpose(g, brdCopy, p, x0, y0, n) ==
    IF n >= p.height * p.width THEN [ok |-> TRUE, rows |-> g]
    ELSE LET y == n \div p.width
             x == n % p.width
         IN  IF p.rows[y + 1][x + 1] # 0 /\ g[y0 + y][x0 + x] # 0
             THEN [ok |-> FALSE, rows |-> brdCopy]
             ELSE Only({Superimpose(h, brdCopy, p, x0, y0, n + 1) :
                          h \in {[g EXCEPT ![y0 + y][x0 + x] =
                                              @ + p.rows[y + 1][x + 1] * p.id]}})

\* Board.place: [ok, rows, why]. why names the return statement taken.
place(g, p, pos) ==
    LET x0 == coordFromLinear(pos).col
        y0 == coordFromLinear(pos).row
    IN  IF (x0 + p.width) > width \/ (y0 + p.height) > height
        THEN [ok |-> FALSE, rows |-> g, why |-> "outside"]
        ELSE Only({IF ~s.ok THEN [ok |-> FALSE, rows |-> s.rows, why |-> "overlap"]
                   ELSE IF smallestVoid(s.rows) < MIN_VOID_COUNT
                   THEN [ok |-> FALSE, rows |-> remove(s.rows, p, pos), why |-> "void"]
                   ELSE [ok |-> TRUE, rows |-> s.rows, why |-> "placed"]
                   : s \in {Superimpose(g, g, p, x0, y0, 0)}})

----------------------------------------------------------------------------
(* The program: main builds the board and the catalog, then calls fit *)

NoPiece == [id |-> 0, startRows |-> <<>>, rows |-> <<>>, width |-> 0,
            height |-> 0, rotation |-> 0]

\* hist: the operation last applied (op), the piece and position it was
\* applied to, what it returned (ok, why, n), the grid before it (before)
\* and the piece as it was when the operation began (was).
NoHist == [op |-> "none", piece |-> 0, pos |-> 0, ok |-> FALSE, why |-> "",
           before |-> EmptyRows, n |-> 0, was |-> NoPiece]

\* The dates the search is run for: months from both rows of the month area
\* and days from every row of the day area, 31 included.  The last one is
\* no date of the calendar; Board takes it as it takes any other (setDate
\* does not look at the ranges) and blocks May's spot and December's, which
\* walls off June's spot: for this board the top-level fit returns False.
SolveDates ==
    {<<5, -1>>, <<1, 25>>, <<2, 2>>, <<2, 5>>, <<2, 23>>, <<2, 26>>, <<2, 29>>, <<2, 31>>,
     <<7, 4>>, <<8, 2>>, <<8, 5>>, <<8, 23>>, <<8, 26>>, <<8, 29>>, <<8, 31>>,
     <<9, 10>>, <<10, 11>>, <<10, 19>>}

InitWith(dates) ==
    /\ date \in dates
    /\ rows = EmptyRows
    /\ pieces = <<>>
    /\ stack = <<>>
    /\ recurse = 0
    /\ pc = "start"
    /\ result = "none"
    /\ hist = NoHist

Init == InitWith({[month |-> d[1], day |-> d[2]] : d \in SolveDates})

\* board = Board(dt); piece = [Piece(...), ...]. An index error in setDate
\* ends the program.
Construct ==
    /\ pc = "start"
    /\ LET b == BoardReset(date.month, date.day)
       IN  /\ rows' = b.rows
           /\ pc' = IF b.ok THEN "built" ELSE "IndexError"
           /\ pieces' = IF b.ok THEN pieces \o MorePieces(pieces) ELSE pieces
    /\ hist' = [NoHist EXCEPT !.op = "construct"]
    /\ UNCHANGED <<date, stack, recurse, result>>

----------------------------------------------------------------------------
(* fit *)

Top == stack[Len(stack)]
Pop == SubSeq(stack, 1, Len(stack) - 1)

\* Entering fit(board, piece): the frame at the first position, the piece
\* reset by the first pass of the position loop.
Frame(pi, g) == [piece |-> pi, pos |-> 0, rotation |-> 0, calling |-> FALSE,
                 entry |-> g]

NextPassSamePosition(f) ==
    IF f.rotation < 3 THEN [f EXCEPT !.rotation = @ + 1, !.calling = FALSE]
    ELSE [f EXCEPT !.rotation = 0, !.calling = FALSE]

\* After piece.rotate() at the end of a pass of the rotation loop: the next
\* rotation, or the next position with the piece reset, or the end of the
\* position loop (pos = locations).
NextPass(f) ==
    IF f.rotation < 3 THEN [f EXCEPT !.rotation = @ + 1, !.calling = FALSE]
    ELSE [f EXCEPT !.pos = @ + 1, !.rotation = 0, !.calling = FALSE]

PieceAfterPassNoRotate(f, p) == p

PieceAfterPass(f, p) ==
    IF f.rotation < 3 \/ f.pos + 1 >= locations THEN rotate(p)
    ELSE PieceReset(rotate(p))

\* if fit(board, piece[0]):
CallFit ==
    /\ pc = "built"
    /\ pc' = "fit"
    /\ recurse' = recurse + 1
    /\ stack' = <<Frame(FirstPiece(pieces), rows)>>
    /\ pieces' = [pieces EXCEPT ![FirstPiece(pieces)] = PieceReset(@)]
    /\ result' = "none"
    /\ hist' = [NoHist EXCEPT !.op = "call", !.piece = FirstPiece(pieces)]
    /\ UNCHANGED <<date, rows>>

Trying == pc = "fit" /\ stack # <<>> /\ ~Top.calling /\ Top.pos < locations

PlaceHist(f, r) ==
    [op |-> "place", piece |-> f.piece, pos |-> f.pos, ok |-> r.ok,
     why |-> r.why, before |-> rows, n |-> f.rotation,
     was |-> pieces[f.piece]]

\* board.place(piece, pos) returns False: rotate, next pass.
PlaceFails ==
    /\ Trying
    /\ \E f \in {Top}, r \in {place(rows, pieces[Top.piece], Top.pos)} :
           /\ ~r.ok
           /\ rows' = r.rows
           /\ pieces' = [pieces EXCEPT ![f.piece] = PieceAfterPass(f, @)]
           /\ stack' = Append(Pop, NextPass(f))
           /\ hist' = PlaceHist(f, r)
    /\ UNCHANGED <<date, recurse, pc, result>>

\* board.place(piece, pos) returns True and there is a next piece: call fit
\* for it.
PlaceAndDescend ==
    /\ Trying
    /\ \E f \in {Top}, r \in {place(rows, pieces[Top.piece], Top.pos)} :
       LET nxt == nextPiece(pieces, pieces[f.piece])
       IN  /\ r.ok
           /\ nxt # 0
           /\ rows' = r.rows
           /\ recurse' = recurse + 1
           /\ pieces' = [pieces EXCEPT ![nxt] = PieceReset(@)]
           /\ stack' = Append(Append(Pop, [f EXCEPT !.calling = TRUE]),
                              Frame(nxt, r.rows))
           /\ hist' = PlaceHist(f, r)
    /\ result' = "none"
    /\ UNCHANGED <<date, pc>>

ReturnKeepsCount(v) ==
    /\ recurse' = recurse
    /\ stack' = Pop
    /\ result' = v
    /\ pc' = IF Len(stack) = 1 THEN "done" ELSE pc

\* The frame on top returns v to its caller (to main when it is the last).
Return(v) ==
    /\ recurse' = recurse - 1
    /\ stack' = Pop
    /\ result' = v
    /\ pc' = IF Len(stack) = 1 THEN "done" ELSE pc

ReturnHist(f) ==
    [NoHist EXCEPT !.op = "return", !.piece = f.piece, !.before = f.entry]

\* board.place(piece, pos) returns True and there is no next piece:
\* return True.
PlaceLast ==
    /\ Trying
    /\ \E f \in {Top}, r \in {place(rows, pieces[Top.piece], Top.pos)} :
           /\ r.ok
           /\ nextPiece(pieces, pieces[f.piece]) = 0
           /\ rows' = r.rows
           /\ hist' = [ReturnHist(f) EXCEPT !.pos = f.pos, !.ok = TRUE,
                                            !.why = "placed"]
    /\ Return("True")
    /\ UNCHANGED <<date, pieces>>

Called == pc = "fit" /\ stack # <<>> /\ Top.calling

ChildTrueRotates ==
    /\ Called
    /\ result = "True"
    /\ hist' = ReturnHist(Top)
    /\ Return("True")
    /\ pieces' = [pieces EXCEPT ![Top.piece] = rotate(@)]
    /\ UNCHANGED <<date, rows>>

\* fit(board, nextPiece) returned True: return True.
ChildTrue ==
    /\ Called
    /\ result = "True"
    /\ hist' = ReturnHist(Top)
    /\ Return("True")
    /\ UNCHANGED <<date, rows, pieces>>

ChildFalseKeepsPiece ==
    /\ Called
    /\ result = "False"
    /\ LET f == Top
       IN  /\ rows' = rows
           /\ pieces' = [pieces EXCEPT ![f.piece] = PieceAfterPass(f, @)]
           /\ stack' = Append(Pop, NextPass(f))
           /\ hist' = [NoHist EXCEPT !.op = "remove", !.piece = f.piece,
                                     !.pos = f.pos, !.before = rows]
    /\ result' = "none"
    /\ UNCHANGED <<date, recurse, pc>>

\* fit(board, nextPiece) returned False: remove the piece, rotate, next pass.
ChildFalse ==
    /\ Called
    /\ result = "False"
    /\ LET f == Top
       IN  /\ rows' = remove(rows, pieces[f.piece], f.pos)
           /\ pieces' = [pieces EXCEPT ![f.piece] = PieceAfterPass(f, @)]
           /\ stack' = Append(Pop, NextPass(f))
           /\ hist' = [NoHist EXCEPT !.op = "remove", !.piece = f.piece,
                                     !.pos = f.pos, !.before = rows]
    /\ result' = "none"
    /\ UNCHANGED <<date, recurse, pc>>

\* All positions and rotations tried: return False.
Exhausted ==
    /\ pc = "fit" /\ stack # <<>> /\ ~Top.calling /\ Top.pos >= locations
    /\ hist' = ReturnHist(Top)
    /\ Return("False")
    /\ UNCHANGED <<date, rows, pieces>>

Fit == PlaceFails \/ PlaceAndDescend \/ PlaceLast \/ ChildTrue \/ ChildFalse
       \/ Exhausted

Next == Construct \/ CallFit \/ Fit

Spec == Init /\ [][Next]_vars

\* The dates the search is run for when its termination is checked.
FairDates == {<<5, -1>>, <<2, 26>>, <<8, 26>>, <<10, 11>>, <<10, 19>>}

InitFair == InitWith({[month |-> d[1], day |-> d[2]] : d \in FairDates})

\* The program runs on: a step that can be taken is eventually taken.
FairSpec == InitFair /\ [][Next]_vars /\ WF_vars(Next)

----------------------------------------------------------------------------
(* Board construction on its own, for any supplied month and day *)

AnyDates == {[month |-> m, day |-> d] :
                m \in (1 - DateSlack) .. (12 + DateSlack),
                d \in (1 - DateSlack) .. (31 + DateSlack)}

InitBoard == InitWith(AnyDates)

SpecBoard == InitBoard /\ [][Construct]_vars

Cells == RowIdx \X ColIdx

CellsWith(g, v) == {c \in Cells : g[c[1]][c[2]] = v}

ValidDate == date.month \in 1 .. 12 /\ date.day \in 1 .. 31

\* The spots all the pieces of the catalog cover together.
RECURSIVE CatalogCells(_)
CatalogCells(k) ==
    IF k = 0 THEN 0 ELSE CellCount(Catalog[k]) + CatalogCells(k - 1)

\* C9: for month 1..12 and day 1..31 the constructed board has the six
\* fixed blocked cells plus exactly two more cells at 9, both addressed
\* in bounds (no index wraps), so 8 cells hold 9 and 41 hold 0, as many as
\* the 8 catalog pieces cover together.
C9_TwoDateCells ==
    (pc = "built" /\ ValidDate) =>
        /\ MonthRow(date.month) \in RowIdx
        /\ DayRow(date.day) \in RowIdx
        /\ FixedBlocked \subseteq CellsWith(rows, BLOCKED)
        /\ CellsWith(rows, BLOCKED) \ FixedBlocked =
               {<<MonthRow(date.month), MonthCol(date.month)>>,
                <<DayRow(date.day), DayCol(date.day)>>}
        /\ Cardinality(CellsWith(rows, BLOCKED) \ FixedBlocked) = 2
        /\ Cardinality(CellsWith(rows, BLOCKED)) = 8
        /\ Cardinality(CellsWith(rows, 0)) = 41
        /\ Cardinality(CellsWith(rows, 0)) = CatalogCells(Len(Catalog))

C9_Witness == pc = "built" /\ date.month = 12 /\ date.day = 31

\* C10: a board is never constructed from a month outside 1..12 or a day
\* outside 1..31: construction fails instead.
C10_InvalidDateRejected == (~ValidDate) => pc # "built"

----------------------------------------------------------------------------
(* Piece.rotate and Piece.reset on their own: one catalog piece is rotated
   and reset in any order *)

InitRotate ==
    /\ date = [month |-> 1, day |-> 1]
    /\ rows = EmptyRows
    /\ pieces = FreshPieces
    /\ stack = <<>>
    /\ recurse = 0
    /\ pc = "pieces"
    /\ result = "none"
    /\ \E k \in 1 .. Len(Catalog) :
          hist = [NoHist EXCEPT !.op = "mark", !.piece = k, !.was = FreshPieces[k]]

\* piece.rotate(); hist.n counts the calls since the piece was as hist.was.
DrvRotate ==
    /\ pc = "pieces"
    /\ hist.n < 4
    /\ pieces' = [pieces EXCEPT ![hist.piece] = rotate(@)]
    /\ hist' = [hist EXCEPT !.op = "rotate", !.n = @ + 1]
    /\ UNCHANGED <<date, rows, stack, recurse, pc, result>>

\* piece.reset()
DrvReset ==
    /\ pc = "pieces"
    /\ pieces' = [pieces EXCEPT ![hist.piece] = PieceReset(@)]
    /\ hist' = [hist EXCEPT !.op = "reset", !.n = 0,
                            !.was = PieceReset(pieces[hist.piece])]
    /\ UNCHANGED <<date, rows, stack, recurse, pc, result>>

\* Start counting rotations from the piece as it is now.
DrvMark ==
    /\ pc = "pieces"
    /\ hist.op = "rotate"
    /\ hist' = [hist EXCEPT !.op = "mark", !.n = 0, !.was = pieces[hist.piece]]
    /\ UNCHANGED <<date, rows, pieces, stack, recurse, pc, result>>

SpecRotate == InitRotate /\ [][DrvRotate \/ DrvReset \/ DrvMark]_vars

\* C7: four successive rotate() calls bring a catalog piece, from any
\* rotation, back to the same rotation index, width, height and matrix;
\* counted from reset() the index is 0 again and the matrix is startRows.
C7_FourRotations ==
    (pc = "pieces" /\ hist.n = 4) =>
        LET p == pieces[hist.piece]
        IN  /\ p.rotation = hist.was.rotation
            /\ p.width = hist.was.width
            /\ p.height = hist.was.height
            /\ p.rows = hist.was.rows
            /\ (hist.was = PieceReset(hist.was) =>
                   p.rotation = 0 /\ p.rows = p.startRows)

\* A piece with a 2 x 4 rectangle, four rotations after it stood at index 3.
C7_Witness ==
    /\ pc = "pieces" /\ hist.n = 4 /\ hist.piece = 5
    /\ hist.was.rotation = 3 /\ hist.was.width = 2

----------------------------------------------------------------------------
(* Board.smallestVoid on its own: grids whose top-left window holds any
   pattern of blocked spots, the other spots all void or all blocked *)

VoidWinRows == 3
VoidWinCols == 3

Window == (0 .. (VoidWinRows - 1)) \X (0 .. (VoidWinCols - 1))

WindowGrid(blocked, around) ==
    [r \in RowIdx |-> [c \in ColIdx |->
        IF <<r, c>> \in Window
        THEN (IF <<r, c>> \in blocked THEN BLOCKED ELSE 0)
        ELSE around]]

InitVoid ==
    /\ date = [month |-> 1, day |-> 1]
    /\ \E blocked \in SUBSET Window, around \in {0, BLOCKED} :
          rows = WindowGrid(blocked, around)
    /\ pieces = <<>>
    /\ stack = <<>>
    /\ recurse = 0
    /\ pc = "grid"
    /\ result = "none"
    /\ hist = NoHist

\* minVoid = board.smallestVoid()
DrvSmallestVoid ==
    /\ pc = "grid"
    /\ pc' = "counted"
    /\ hist' = [NoHist EXCEPT !.op = "smallestVoid", !.n = smallestVoid(rows)]
    /\ UNCHANGED <<date, rows, pieces, stack, recurse, result>>

SpecVoid == InitVoid /\ [][DrvSmallestVoid]_vars

\* The spots above, below, left of and right of spot c.
Around(c) == {<<c[1] - 1, c[2]>>, <<c[1] + 1, c[2]>>,
              <<c[1], c[2] - 1>>, <<c[1], c[2] + 1>>} \cap Cells

\* The void spots next to a spot of S.
Beside(g, S) == {c \in UNION {Around(s) : s \in S} : g[c[1]][c[2]] = 0}

\* The maximal 4-connected region of void spots that contains S.
RECURSIVE Region(_, _)
Region(g, S) ==
    LET T == S \cup Beside(g, S)
    IN  IF T = S THEN S ELSE Region(g, T)

\* The sizes of the regions that the void spots in left belong to.
RECURSIVE SizesOfRegions(_, _)
SizesOfRegions(g, left) ==
    IF left = {} THEN {}
    ELSE LET R == Region(g, {CHOOSE c \in left : TRUE})
         IN  {Cardinality(R)} \cup SizesOfRegions(g, left \ R)

RegionSizes(g) == SizesOfRegions(g, CellsWith(g, 0))

SmallestRegion(g) == CHOOSE n \in RegionSizes(g) : \A m \in RegionSizes(g) : n <= m

\* C8: on a grid with at least one void spot smallestVoid() returns the
\* size of the smallest maximal 4-connected region of void spots.
C8_SmallestRegion ==
    (pc = "counted" /\ CellsWith(rows, 0) # {}) => hist.n = SmallestRegion(rows)

\* A region in the shape of a U whose arms are joined through a later row
\* only (rows "0 9 0" over "0 0 0" over blocked spots): 5 spots.
C8_Witness ==
    /\ pc = "counted"
    /\ rows = WindowGrid({<<0, 1>>, <<2, 0>>, <<2, 1>>, <<2, 2>>}, BLOCKED)
    /\ hist.n = 5

----------------------------------------------------------------------------
(* Board.place and Board.remove on their own: on a constructed board any
   piece not yet on the board is placed in any rotation at any position,
   and a piece just placed may be removed again *)

\* place is tried on the fresh board and on the boards that hold one of the
\* first SeedPieces pieces of the catalog.
SeedPieces == 3

PlaceDates == {<<7, 4>>}

InitPlace == InitWith({[month |-> d[1], day |-> d[2]] : d \in PlaceDates})

\* The positions in Piece.pieces of the pieces whose id is on the grid.
OnBoard(g, ps) == {k \in 1 .. Len(ps) : CellsWith(g, ps[k].id) # {}}

\* The piece rotated n times from its start shape.
RECURSIVE Rotated(_, _)
Rotated(p, n) == IF n = 0 THEN PieceReset(p) ELSE rotate(Rotated(p, n - 1))

\* board.place(piece, pos) for a piece not on the board, in any rotation, at
\* any position.
DrvPlace ==
    /\ pc = "built"
    /\ hist.op = "construct" \/ (hist.op = "place" /\ hist.ok)
    /\ OnBoard(rows, pieces) \in {{}} \cup {{k} : k \in 1 .. SeedPieces}
    /\ \E k \in (1 .. Len(pieces)) \ OnBoard(rows, pieces), n \in 0 .. 3 :
          LET p == Rotated(pieces[k], n)
          IN  \E pos \in Locs :
                 LET r == place(rows, p, pos)
                 IN  /\ rows' = r.rows
                     /\ pieces' = [pieces EXCEPT ![k] = p]
                     /\ hist' = [op |-> "place", piece |-> k, pos |-> pos,
                                 ok |-> r.ok, why |-> r.why, before |-> rows,
                                 n |-> n, was |-> NoPiece]
    /\ UNCHANGED <<date, stack, recurse, pc, result>>

\* board.remove(piece, pos) right after place(piece, pos) returned True.
DrvRemove ==
    /\ pc = "built"
    /\ hist.op = "place" /\ hist.ok
    /\ rows' = remove(rows, pieces[hist.piece], hist.pos)
    /\ hist' = [hist EXCEPT !.op = "remove"]
    /\ UNCHANGED <<date, pieces, stack, recurse, pc, result>>

NextPlace == Construct \/ DrvPlace \/ DrvRemove

SpecPlace == InitPlace /\ [][NextPlace]_vars

\* C5: when place returns False, whichever return statement it takes, the
\* grid is what it was before the call.
C5_PlaceAtomic ==
    (hist.op = "place" /\ ~hist.ok) => rows = hist.before

\* place fails on the void check after stamping a piece next to another.
C5_Witness ==
    /\ hist.op = "place" /\ ~hist.ok /\ hist.why = "void"
    /\ OnBoard(rows, pieces) # {}

\* C6: remove right after a place that returned True, the piece's rotation
\* unchanged, gives back the grid from before the place.
C6_PlaceRemove ==
    hist.op = "remove" => rows = hist.before

\* The last piece of the catalog, rotated once, removed from beside piece 2.
C6_Witness ==
    /\ hist.op = "remove" /\ hist.piece = 8 /\ hist.n = 1
    /\ OnBoard(rows, pieces) = {2}

----------------------------------------------------------------------------
(* The search: what fit returns and what it leaves on the board *)

Done == pc = "done"

\* The board as Board(date) built it, before any piece was placed.
FreshRows == BoardReset(date.month, date.day).rows

\* C1: when the top-level fit returns True, every spot that was 0 on the
\* fresh board holds the id of a catalog piece, the spots that were blocked
\* still hold 9, no spot is 0, and each piece's id is on exactly as many
\* spots as its shape covers.
C1_ExactCover ==
    (Done /\ result = "True") =>
        /\ \A c \in Cells :
              IF FreshRows[c[1]][c[2]] = 0
              THEN \E k \in 1 .. Len(pieces) : rows[c[1]][c[2]] = pieces[k].id
              ELSE rows[c[1]][c[2]] = BLOCKED
        /\ CellsWith(rows, 0) = {}
        /\ Cardinality(CellsWith(rows, BLOCKED)) = 8
        /\ \A k \in 1 .. Len(pieces) :
              Cardinality(CellsWith(rows, pieces[k].id)) = CellCount(pieces[k].startRows)

C1_Witness == Done /\ result = "True" /\ date = [month |-> 7, day |-> 4]

\* The spots a matrix covers, as (row, column) offsets from its top-left.
ShapeSpots(m) ==
    {o \in (0 .. (Len(m) - 1)) \X (0 .. (Len(m[1]) - 1)) : m[o[1] + 1][o[2] + 1] # 0}

\* Is spot a before spot b in row-major order?
Before(a, b) == a[1] < b[1] \/ (a[1] = b[1] /\ a[2] <= b[2])

FirstOf(S) == CHOOSE a \in S : \A b \in S : Before(a, b)

\* The spots covered when the shape's first spot lies on spot c.
Laid(spots, c) ==
    LET f == FirstOf(spots)
    IN  {<<c[1] + o[1] - f[1], c[2] + o[2] - f[2]>> : o \in spots}

\* Is there a position and a rotation for every piece of S such that the
\* pieces lie on void spots of V only, do not overlap and cover V?  The
\* first void spot must be covered, and the piece that covers it does so
\* with the first spot of its shape.
RECURSIVE ExistsCover(_, _)
ExistsCover(V, S) ==
    IF S = {} THEN V = {}
    ELSE V # {} /\
         \E k \in S, n \in 0 .. 3 :
            LET on == Laid(ShapeSpots(Rotated(pieces[k], n).rows), FirstOf(V))
            IN  on \subseteq V /\ ExistsCover(V \ on, S \ {k})

\* The pieces fit places from piece k on: k, its nextPiece, and so on.
RECURSIVE RestFrom(_)
RestFrom(k) == IF k = 0 THEN {} ELSE {k} \cup RestFrom(nextPiece(pieces, pieces[k]))

RECURSIVE SpotsOf(_)
SpotsOf(S) ==
    IF S = {} THEN 0
    ELSE LET k == CHOOSE x \in S : TRUE
         IN  CellCount(pieces[k].startRows) + SpotsOf(S \ {k})

ReturnedFalse == hist.op = "return" /\ result = "False"

\* C2: whenever a call of fit returns False, at the top or deeper, the void
\* spots of the board are as many as the pieces from the call's piece on
\* cover, and no positions and rotations of these pieces cover them without
\* overlap: fit returns False only if no assignment exists.
C2_Complete ==
    ReturnedFalse =>
        /\ Cardinality(CellsWith(rows, 0)) = SpotsOf(RestFrom(hist.piece))
        /\ ~ExistsCover(CellsWith(rows, 0), RestFrom(hist.piece))

\* The top-level call, all eight pieces still to place, returns False.
C2_Witness == Done /\ ReturnedFalse /\ hist.piece = 1

\* C3: whenever a call of fit returns False the grid is, spot for spot, the
\* grid the call was entered with; after a top-level False only 0 and 9 are
\* on the board.
C3_FalseRestores ==
    /\ ReturnedFalse => rows = hist.before
    /\ (Done /\ result = "False") =>
           \A c \in Cells : rows[c[1]][c[2]] \in {0, BLOCKED}

\* A call for the last piece returns False with seven pieces on the board.
C3_Witness ==
    /\ ReturnedFalse /\ hist.piece = 8
    /\ Cardinality(OnBoard(rows, pieces)) = 7

\* C4: the top-level fit eventually returns.
C4_Terminates == <>Done

C4_Witness == Done /\ recurse = 0 /\ date = [month |-> 2, day |-> 26]

----------------------------------------------------------------------------
(* Board.isBoardValid *)

\* Board.isBoardValid: False as soon as a spot holds more than 1.
isBoardValid(g) == \A c \in Cells : ~(g[c[1]][c[2]] > 1)

\* No spot holds a sum of two or more of the blocked marker and piece ids:
\* every spot is 0, the blocked marker, or the id of one piece.
NoOverlapValue(g, ps) ==
    \A c \in Cells :
        g[c[1]][c[2]] \in {0, BLOCKED} \cup {ps[k].id : k \in 1 .. Len(ps)}

\* C11: on the board as Board(date) built it, isBoardValid returns True
\* exactly when no spot holds an overlap value; in particular it returns
\* True on the freshly constructed board.
C11_ValidIffNoOverlap ==
    (pc = "built" /\ ValidDate) =>
        (isBoardValid(rows) <=> NoOverlapValue(rows, pieces))

----------------------------------------------------------------------------
(* The batch driver: main called once per date, in one process *)

\* The number of solves of a batch.
MaxSolves == 2

\* Dates of the batch driver's months (7 .. 12) whose searches are short.
BatchDates == {<<8, 26>>, <<10, 11>>, <<10, 19>>}

InitBatch == InitWith({[month |-> d[1], day |-> d[2]] : d \in BatchDates})

\* The driver's loops run through the dates in calendar order.
LaterDate(d, e) == d[1] > e.month \/ (d[1] = e.month /\ d[2] > e.day)

\* calpuz.main() has returned and the driver calls it for a later date.
\* Piece.pieces and recurse are module state: they are what the last solve
\* left.
NextSolve ==
    /\ pc = "done"
    /\ Len(pieces) < MaxSolves * Len(Catalog)
    /\ \E d \in BatchDates :
          /\ LaterDate(d, date)
          /\ date' = [month |-> d[1], day |-> d[2]]
    /\ pc' = "start"
    /\ stack' = <<>>
    /\ result' = "none"
    /\ hist' = [NoHist EXCEPT !.op = "main"]
    /\ UNCHANGED <<rows, pieces, recurse>>

NextBatch == Next \/ NextSolve

SpecBatch == InitBatch /\ [][NextBatch]_vars

\* The ids of the pieces a solve places: its first piece and the pieces
\* nextPiece yields from it.
SolveIds == {pieces[k].id : k \in RestFrom(stack[1].piece)}

\* C12: in every solve of a batch the piece passed to fit has id 1,
\* following nextPiece from it visits exactly the pieces with ids 1..8, and
\* no id that is written to the grid equals the blocked marker.
C12_FreshCatalog ==
    (pc = "fit") =>
        /\ pieces[stack[1].piece].id = 1
        /\ SolveIds = 1 .. Len(Catalog)
        /\ BLOCKED \notin SolveIds

----------------------------------------------------------------------------
(* The grid during a solve *)

\* fit is running or has returned: the states between the calls it makes.
Solving == pc \in {"fit", "done"}

\* C13: between the place and remove calls of a solve every spot is 0, the
\* blocked marker or the id of one piece; the spots that hold the blocked
\* marker are the spots Board construction blocked; and every piece id is
\* on no spot or on exactly as many spots as its shape covers.
C13_GridInvariant ==
    Solving =>
        /\ NoOverlapValue(rows, pieces)
        /\ CellsWith(rows, BLOCKED) = CellsWith(FreshRows, BLOCKED)
        /\ \A k \in 1 .. Len(pieces) :
              Cardinality(CellsWith(rows, pieces[k].id))
                  \in {0, CellCount(pieces[k].startRows)}

----------------------------------------------------------------------------
(* The void check of place *)

\* The grid with the piece of the last place call stamped on it, as place
\* had it when it called smallestVoid.
Stamped ==
    Superimpose(hist.before, hist.before, hist.was,
                coordFromLinear(hist.pos).col, coordFromLinear(hist.pos).row, 0).rows

\* place returned False because of the void check.
VoidRejected == hist.op = "place" /\ hist.why = "void"

\* A void spot of one of the smallest groups the walks of smallestVoid find.
TightSpot(g) ==
    LET st == RowWalk(g, ColumnWalk(g, VoidStart, 0), 0)
        in == {l \in Locs : st.spotGroups[l] # -1}
        l == CHOOSE l \in in : \A m \in in :
                st.groupCounts[st.spotGroups[l]] <= st.groupCounts[st.spotGroups[m]]
    IN  <<coordFromLinear(l).row, coordFromLinear(l).col>>

\* The spots covered when spot o of the shape lies on spot c.
LaidOn(spots, o, c) == {<<c[1] + q[1] - o[1], c[2] + q[2] - o[2]>> : q \in spots}

\* Is there a position and a rotation for every piece of S such that the
\* pieces lie on void spots of V only, do not overlap and cover V?  Spot c
\* of V must be covered, by some spot of some piece.
CoverThrough(V, S, c) ==
    \E k \in S, n \in 0 .. 3 :
        \E o \in ShapeSpots(Rotated(pieces[k], n).rows) :
            LET on == LaidOn(ShapeSpots(Rotated(pieces[k], n).rows), o, c)
            IN  on \subseteq V /\ ExistsCover(V \ on, S \ {k})

\* C14: whenever place rejects a stamp because of the void check, void
\* spots are left and no positions and rotations of the pieces not yet on
\* the board cover them without overlap; a stamp that leaves no void spot is
\* not rejected.
C14_PruneIsSound ==
    VoidRejected =>
        /\ CellsWith(Stamped, 0) # {}
        /\ ~CoverThrough(CellsWith(Stamped, 0), RestFrom(hist.piece) \ {hist.piece},
                         TightSpot(Stamped))

\* The void check rejects a stamp of the seventh piece: one piece is left
\* and six are on the board.
C14_Witness == VoidRejected /\ hist.piece = 7

----------------------------------------------------------------------------
(* The order in which fit places the pieces *)

\* The ids of the pieces that are on the board.
IdsOnBoard == {pieces[j].id : j \in OnBoard(rows, pieces)}

\* Control is in the frame on top of the stack, which is about to call
\* place.
BeforePlace == pc = "fit" /\ stack # <<>> /\ ~Top.calling

\* Control is back in the frame on top of the stack after its recursive
\* call returned False; the frame's piece is still on the board.
BeforeRemove == Called /\ result = "False"

\* C15: while control is in the fit call for the piece with id k, the ids
\* on the board are exactly 1 .. k-1 before a place attempt and exactly
\* 1 .. k between the successful place of the piece and its removal; no id
\* greater than k is on the board.
C15_CatalogOrder ==
    /\ BeforePlace => IdsOnBoard = 1 .. (pieces[Top.piece].id - 1)
    /\ BeforeRemove => IdsOnBoard = 1 .. pieces[Top.piece].id

----------------------------------------------------------------------------
(* The rotation state of the pieces during the search *)

\* Is the piece as reset() leaves it: rotation 0, base width, height, shape?
AtBase(p) == p = PieceReset(p)

\* The pieces that have an active fit call.
FramePieces == {stack[i].piece : i \in 1 .. Len(stack)}

\* In every frame that is inside its loops the piece is the base shape
\* rotated as many times as the rotation loop has counted: the base shape
\* itself when the rotation loop starts for a position, and the shape that
\* was placed while the frame waits for its recursive call.
ShapeFollowsLoop ==
    \A i \in 1 .. Len(stack) :
        stack[i].pos < locations =>
            pieces[stack[i].piece] = Rotated(pieces[stack[i].piece], stack[i].rotation)

\* A piece of the solve's catalog without an active fit call is at its
\* base: fit is entered with the piece at rotation 0.
EnteredAtBase ==
    (pc = "fit" /\ result # "True") =>
        \A k \in (FirstPiece(pieces) .. Len(pieces)) \ FramePieces : AtBase(pieces[k])

\* A step of the search changes no piece but that of the frame in control.
OnlyOwnPiece ==
    pc = "fit" =>
        \A k \in 1 .. Len(pieces) : pieces'[k] # pieces[k] => k = Top.piece

\* C16: when the rotation loop starts for a position and when fit is
\* entered for a piece, the piece is at rotation 0 with its base width,
\* height and shape; no fit call changes the rotation of another call's
\* piece, so remove takes off the shape that was placed (the grid is again
\* the grid the call was entered with); and when fit returns False its piece
\* is at rotation 0.
C16_RotationFresh ==
    /\ [](pc = "fit" => ShapeFollowsLoop)
    /\ []EnteredAtBase
    /\ [](hist.op = "remove" => rows = Top.entry)
    /\ [](ReturnedFalse => AtBase(pieces[hist.piece]))
    /\ [][OnlyOwnPiece]_vars

\* The third piece has been removed after its second rotation was placed
\* and the search below it failed.
C16_Witness ==
    /\ hist.op = "remove" /\ hist.piece = 3
    /\ Top.rotation = 3 /\ pieces[3].rotation = 3

----------------------------------------------------------------------------
(* After the last piece is placed *)

\* place has succeeded for the last piece and fit calls are still to
\* return.
Solved == pc = "fit" /\ result = "True"

\* C17: once place has succeeded for the last piece, every step is the
\* return of True of the innermost active fit call: nothing is placed,
\* removed or rotated, no position or rotation is tried, and the grid stays
\* the grid the last place left.
C17_FirstSolutionFinal ==
    [][Solved =>
          /\ rows' = rows
          /\ pieces' = pieces
          /\ result' = "True"
          /\ stack' = Pop
          /\ hist'.op = "return"]_vars

\* The top-level call has returned True through all eight frames.
C17_Witness ==
    /\ Done /\ result = "True" /\ hist.op = "return"
    /\ hist.piece = FirstPiece(pieces) /\ recurse = 0
    /\ OnBoard(rows, pieces) = 1 .. Len(Catalog)

----------------------------------------------------------------------------
(* The global counter recurse *)

\* The position of a piece in the catalog of its solve, from 1.
CatalogPosition(k) == k - FirstPiece(pieces) + 1

\* C18: recurse is the number of active fit calls; while a call is active
\* it is between 1 and the catalog size and it is the catalog position of
\* the piece being fitted; before the top-level call and whenever that call
\* has returned, with True or with False, it is 0.
C18_RecurseIsDepth ==
    /\ recurse = Len(stack)
    /\ pc = "fit" =>
          /\ recurse \in 1 .. Len(Catalog)
          /\ recurse = CatalogPosition(Top.piece)
    /\ pc \in {"built", "done"} => recurse = 0

\* The call for the last piece is active, eight calls deep.
C18_Witness ==
    /\ pc = "fit" /\ recurse = Len(Catalog)
    /\ CatalogPosition(Top.piece) = Len(Catalog) /\ ~Top.calling

====
